---------------------------- MODULE Spec2Model ----------------------------
(***************************************************************************)
(* A model of the metro-station Voronoi map generator                      *)
(* (src/voronoi_generator.py, src/app.py, src/main.py).                    *)
(*                                                                         *)
(* Five parts of the program are modelled, each with its own               *)
(* specification over the shared variables:                                *)
(*   SpecColor    the greedy colourer _assign_colors_to_polygons           *)
(*   SpecRepeat   the colourer called twice on the same cells              *)
(*   SpecDedup    the dissolve-by-name step of _fetch_stations             *)
(*   SpecVoronoi  _create_voronoi followed by the colourer                 *)
(*   SpecApi      the request handlers and the prerender task of app.py    *)
(***************************************************************************)
EXTENDS Integers, Sequences, FiniteSets, TLC

VARIABLES
    pc,               \* position of the running operation
    n,                \* colourer: n = len(gdf)
    touching,         \* colourer input: pairs of cells sharing boundary only
    overlapping,      \* colourer input: pairs of cells sharing area
    adjacency,        \* colourer: adjacency[i], the neighbours of cell i
    colors_assigned,  \* colourer: dict cell -> palette index
    i,                \* colourer: the loop variable of the greedy loop
    polygon_colors,   \* colourer: the returned list of hex codes
    features,         \* _fetch_stations: what ox.features_from_place returned
    stations,         \* _fetch_stations: the stations frame
    raised,           \* the exception that ended the operation, or NoError
    merged_again,     \* the merge of lines 113-126 applied to its own result
    city_boundary,    \* what ox.geocode_to_gdf returns for the city (EPSG:4326)
    stations_utm,     \* _create_voronoi: the stations, reprojected
    vor,              \* _create_voronoi: the cells of voronoi_diagram(points)
    city_gdf,         \* _create_voronoi: the city boundary, reprojected
    vor_polys,        \* _create_voronoi: the clipped cells
    voronoi_gdf,      \* _create_voronoi: the returned frame of owned cells
    call,             \* colourer: 1 in the first call, 2 in a repeated call
    first_colors,     \* the list the first call of the colourer returned
    osm,              \* what the data source holds for every city
    maps_dir,         \* the names of the files in maps_dir
    status_file,      \* the dict stored in STATUS_FILE
    response,         \* the outcome of the last HTTP request
    map_urls,         \* the map_url values the responses have handed out
    pr_pc,            \* prerender: position of the background task
    status,           \* prerender: its local dict, status
    city_k,           \* prerender: index of the loop's city in POPULAR_CITIES
    city_slug         \* prerender: its local city_slug, or Unbound

colorVars == <<n, touching, overlapping, adjacency, colors_assigned, i,
               polygon_colors>>

fetchVars == <<features, stations, merged_again>>

voronoiVars == <<city_boundary, stations_utm, vor, city_gdf, vor_polys,
                 voronoi_gdf>>

repeatVars == <<call, first_colors>>

apiVars == <<osm, maps_dir, status_file, response, map_urls, pr_pc, status,
             city_k, city_slug>>

vars == <<pc, colorVars, fetchVars, voronoiVars, raised, repeatVars, apiVars>>

(***************************************************************************)
(* Bounds of the model.                                                    *)
(***************************************************************************)
\* most cells handed to the colourer
MaxCells == 10
\* most cells of the inputs whose geometry is unrestricted
MaxAll == 4
\* most pairs of cells that do not simply touch (they are apart, or overlap)
MaxOdd == 1
\* most cells of the unrestricted inputs the colourer is called on twice
MaxTwice == 3
\* most features the station query returns
MaxRaw == 3
\* the extent of the city along the line of stations, in map units
MaxExtent == 4

(***************************************************************************)
(* The palette (src/voronoi_generator.py:16-25).                           *)
(***************************************************************************)
VORONOI_COLORS ==
    << "#e41a1c", "#377eb8", "#4daf4a", "#984ea3",
       "#ff7f00", "#ffff33", "#a65628", "#f781bf" >>

\* len(VORONOI_COLORS)
PaletteSize == Len(VORONOI_COLORS)

\* range(len(VORONOI_COLORS))
PaletteIndices == 0 .. (PaletteSize - 1)

\* the palette entry of a 0-based Python index
ColorOf(idx) == VORONOI_COLORS[idx + 1]

(***************************************************************************)
(* Helpers.                                                                *)
(***************************************************************************)
\* the pairs (a, b), a < b, the double loop of the adjacency build visits
PairsOf(m) == { p \in (0 .. (m - 1)) \X (0 .. (m - 1)) : p[1] < p[2] }

\* the subsets of S of at most k elements
RECURSIVE SubsetsUpTo(_, _)
SubsetsUpTo(S, k) ==
    IF k = 0 THEN { {} }
    ELSE LET prev == SubsetsUpTo(S, k - 1)
         IN  prev \cup { T \cup {x} : T \in prev, x \in S }

Min(S) == CHOOSE x \in S : \A y \in S : x <= y

(***************************************************************************)
(* Values shared by the operations.                                        *)
(***************************************************************************)
\* no exception was raised
NoError == "none"

\* the colourer has not been called
ColorIdle ==
    /\ adjacency = << >>
    /\ colors_assigned = << >>
    /\ i = 0
    /\ polygon_colors = << >>

\* _fetch_stations has not been called
FetchIdle ==
    /\ features = << >>
    /\ stations = << >>
    /\ merged_again = << >>

\* _create_voronoi has not been called
VoronoiIdle ==
    /\ city_boundary = {}
    /\ stations_utm = << >>
    /\ vor = << >>
    /\ city_gdf = {}
    /\ vor_polys = << >>
    /\ voronoi_gdf = << >>

\* the colourer has not been called a second time
RepeatIdle ==
    /\ call = 1
    /\ first_colors = << >>

\* a local variable no statement has bound yet
Unbound == "<unbound>"

\* no HTTP request has been answered
NoResponse == [ handler |-> "none", code |-> 0 ]

\* the web application is not running
ApiIdle ==
    /\ osm = << >>
    /\ maps_dir = {}
    /\ status_file = << >>
    /\ response = NoResponse
    /\ map_urls = {}
    /\ pr_pc = "idle"
    /\ status = << >>
    /\ city_k = 0
    /\ city_slug = Unbound

(***************************************************************************)
(* Coordinates.  A coordinate is an integer number of 1/Scale map units,   *)
(* with Scale a multiple of every possible group size, so that the mean of *)
(* the raw points of a group is again a whole number of them and the       *)
(* division of a centroid is exact.  Scale is even, so that the midpoint   *)
(* of two station locations is whole as well.                              *)
(***************************************************************************)
RECURSIVE GCD(_, _)
GCD(a, b) == IF b = 0 THEN a ELSE GCD(b, a % b)

RECURSIVE LCMUpTo(_)
LCMUpTo(k) ==
    IF k <= 1 THEN 1
    ELSE LET l == LCMUpTo(k - 1) IN (l * k) \div GCD(l, k)

Scale == 2 * LCMUpTo(MaxRaw)

\* the point with the given map coordinates
Pt(x, y) == <<x * Scale, y * Scale>>

(***************************************************************************)
(* _fetch_stations (src/voronoi_generator.py:90-130).                      *)
(***************************************************************************)
\* a feature of the query result without a "name" tag (NaN in the frame)
NoName == "<NaN>"

\* the station names of the model, in the order Python sorts strings
NameOrder == << "A", "B", "a" >>

Names == { NameOrder[k] : k \in 1 .. Len(NameOrder) }

Point(xy) == [ type |-> "Point", pts |-> {xy} ]

\* the coordinates of a Point geometry
Location(geom) == CHOOSE xy \in geom.pts : TRUE

RECURSIVE SumX(_)
SumX(pts) ==
    IF pts = {} THEN 0
    ELSE LET p == CHOOSE q \in pts : TRUE IN p[1] + SumX(pts \ {p})

RECURSIVE SumY(_)
SumY(pts) ==
    IF pts = {} THEN 0
    ELSE LET p == CHOOSE q \in pts : TRUE IN p[2] + SumY(pts \ {p})

\* shapely's centroid of a Point or MultiPoint: the mean of its points
PointsCentroid(geom) ==
    LET k == Cardinality(geom.pts)
    IN  Point(<< SumX(geom.pts) \div k, SumY(geom.pts) \div k >>)

\* union_all of point geometries: the set of their distinct points, a Point
\* when there is one and a MultiPoint otherwise
UnionAll(geoms) ==
    LET pts == UNION { g.pts : g \in geoms }
    IN  [ type |-> IF Cardinality(pts) = 1 THEN "Point" ELSE "MultiPoint",
          pts  |-> pts ]

\* a faulty variant: a Point comes back with its axes swapped
ensure_pointSwapped(geom) ==
    IF geom.type = "MultiPoint" THEN PointsCentroid(geom)
    ELSE IF geom.type = "Point"
         THEN Point(<< (CHOOSE q \in geom.pts : TRUE)[2],
                       (CHOOSE q \in geom.pts : TRUE)[1] >>)
         ELSE PointsCentroid(geom)

\* lines 118-124
ensure_point(geom) ==
    IF geom.type = "MultiPoint" THEN PointsCentroid(geom)
    ELSE IF geom.type = "Point" THEN geom
         ELSE PointsCentroid(geom)

\* str.lower on the names of the model
Lower(nm) == IF nm = "A" THEN "a" ELSE nm

\* a faulty variant: names are compared without regard to case
GroupKeyLower(nm) == Lower(nm)

\* the "by" key of the dissolve: the name as it is
GroupKey(nm) == nm

\* the rows of a frame that fall in the group of key nm
GroupRows(rows, nm) ==
    { k \in 1 .. Len(rows) : GroupKey(rows[k].name) = nm }

\* a faulty variant: the merged geometry keeps one point per record, so that the
\* centroid weighs a location by the number of records at it
GroupGeometryPerRecord(rows, grp) ==
    LET k  == Cardinality(grp)
        sx == LET RECURSIVE S(_)
                  S(g) == IF g = {} THEN 0
                          ELSE LET r == CHOOSE q \in g : TRUE
                               IN (CHOOSE q \in rows[r].geometry.pts : TRUE)[1]
                                    + S(g \ {r})
              IN S(grp)
        sy == LET RECURSIVE S(_)
                  S(g) == IF g = {} THEN 0
                          ELSE LET r == CHOOSE q \in g : TRUE
                               IN (CHOOSE q \in rows[r].geometry.pts : TRUE)[2]
                                    + S(g \ {r})
              IN S(grp)
    IN  Point(<< sx \div k, sy \div k >>)

\* the geometry dissolve gives a group: the union of its members' geometries
GroupGeometry(rows, grp) == UnionAll({ rows[k].geometry : k \in grp })

\* line 113-114: dissolve(by="name", aggfunc="first") and reset_index: one
\* row per group, the groups in sorted order of their key, the geometry the
\* union of the group, every other column its first value in the group
Dissolve(rows) ==
    LET keys   == { GroupKey(rows[k].name) : k \in 1 .. Len(rows) }
        IsKey(nm) == nm \in keys
        sorted == SelectSeq(NameOrder, IsKey)
    IN  [ g \in 1 .. Len(sorted) |->
            LET grp   == GroupRows(rows, sorted[g])
                first == Min(grp)
            IN  [ name     |-> sorted[g],
                  geometry |-> GroupGeometry(rows, grp),
                  linha    |-> rows[first].linha ] ]

\* lines 113-126: the merge of the stations that share a name
MergeDuplicates(rows) ==
    LET d == Dissolve(rows)
    IN  [ g \in 1 .. Len(d) |->
            [ name     |-> d[g].name,
              geometry |-> ensure_point(d[g].geometry),
              linha    |-> d[g].linha ] ]

\* lines 101-103: the named Point features, with the column "linha"
NamedPoints(feats) ==
    LET Keep(f) == f.geometry.type = "Point" /\ f.name # NoName
        kept == SelectSeq(feats, Keep)
    IN  [ k \in 1 .. Len(kept) |->
            [ name     |-> kept[k].name,
              geometry |-> kept[k].geometry,
              linha    |-> "unknown" ] ]

\* lines 98-108: the query result is filtered; no station left is an error
FetchFilter ==
    /\ pc = "fetch_stations"
    /\ stations' = NamedPoints(features)
    /\ IF Len(NamedPoints(features)) = 0
       THEN /\ raised' = "ValueError"
            /\ pc' = "failed"
       ELSE /\ pc' = "merge_duplicates"
            /\ UNCHANGED raised
    /\ UNCHANGED <<features, merged_again, colorVars, voronoiVars>>
    /\ UNCHANGED <<repeatVars, apiVars>>

\* lines 110-130: the duplicates are merged and the frame is returned
FetchMerge ==
    /\ pc = "merge_duplicates"
    /\ stations' = MergeDuplicates(stations)
    /\ pc' = "fetched"
    /\ UNCHANGED <<features, merged_again, colorVars, voronoiVars, raised>>
    /\ UNCHANGED <<repeatVars, apiVars>>

\* the merge applied once more, to the frame _fetch_stations returned
MergeAgain ==
    /\ pc = "fetched"
    /\ merged_again' = MergeDuplicates(stations)
    /\ pc' = "merged_again"
    /\ UNCHANGED <<features, stations, colorVars, voronoiVars, raised>>
    /\ UNCHANGED <<repeatVars, apiVars>>

(***************************************************************************)
(* SpecDedup: _fetch_stations on every query result of at most MaxRaw      *)
(* features, each a named or unnamed Point at one of the sample locations  *)
(* or a feature that is no Point.                                          *)
(***************************************************************************)
SamplePoints == { Pt(0, 0), Pt(2, 0), Pt(5, 5) }

SampleFeatures ==
    [ name : Names \cup {NoName}, geometry : { Point(xy) : xy \in SamplePoints } ]
      \cup { [ name |-> "A", geometry |-> [ type |-> "Polygon", pts |-> {Pt(0, 0)} ] ] }

InitDedup ==
    /\ pc = "fetch_stations"
    /\ \E len \in 0 .. MaxRaw : features \in [ 1 .. len -> SampleFeatures ]
    /\ stations = << >>
    /\ merged_again = << >>
    /\ raised = NoError
    /\ n = 0
    /\ touching = {}
    /\ overlapping = {}
    /\ ColorIdle
    /\ VoronoiIdle
    /\ RepeatIdle
    /\ ApiIdle

NextDedup == FetchFilter \/ FetchMerge \/ MergeAgain

SpecDedup == InitDedup /\ [][NextDedup]_vars

(***************************************************************************)
(* _assign_colors_to_polygons (src/voronoi_generator.py:28-74).            *)
(***************************************************************************)
\* shapely's a.touches(b): the boundaries meet, the interiors do not
touches(a, b) ==
    LET lo == IF a < b THEN a ELSE b
        hi == IF a < b THEN b ELSE a
    IN  <<lo, hi>> \in touching

\* shapely's a.intersects(b): the geometries share at least one point
intersects(a, b) ==
    LET lo == IF a < b THEN a ELSE b
        hi == IF a < b THEN b ELSE a
    IN  <<lo, hi>> \in touching \cup overlapping

\* a faulty variant: only boundary contact counts
AdjacentTouchOnly(a, b) == touches(a, b)

\* the test of lines 49-50
Adjacent(a, b) == touches(a, b) \/ intersects(a, b)

\* lines 44-52: the adjacency list after the double loop
BuildAdjacency(m) ==
    [ a \in 0 .. (m - 1) |->
        { b \in 0 .. (m - 1) :
            \/ (a < b /\ Adjacent(a, b))
            \/ (b < a /\ Adjacent(b, a)) } ]

\* a faulty variant: the neighbour just before the cell is overlooked
neighbor_colorsSkipPrev(c, adj, assigned) ==
    { assigned[nb] : nb \in { x \in adj[c] : x \in DOMAIN assigned /\ x # c - 1 } }

\* lines 59-63: the colours of the neighbours that are already coloured
neighbor_colors(c, adj, assigned) ==
    { assigned[nb] : nb \in { x \in adj[c] : x \in DOMAIN assigned } }

\* a faulty variant: the highest free index is taken
FirstAvailableHighest(used) ==
    CHOOSE x \in PaletteIndices \ used : \A y \in PaletteIndices \ used : y <= x

\* lines 66-69: the first color_idx of range(len(VORONOI_COLORS)) not in used
FirstAvailable(used) == Min(PaletteIndices \ used)

\* a faulty variant: the fallback is off by one
FallbackColorNext(c) == (c + 1) % PaletteSize

\* line 72: the for-else fallback
FallbackColor(c) == c % PaletteSize

\* a faulty variant: the fallback counts the calls made so far
ColorForPerCall(c, adj, assigned) ==
    LET used == neighbor_colors(c, adj, assigned)
    IN  IF PaletteIndices \ used # {}
        THEN FirstAvailable(used)
        ELSE FallbackColor(c + call - 1)

\* lines 59-72: the palette index cell c receives
ColorFor(c, adj, assigned) ==
    LET used == neighbor_colors(c, adj, assigned)
    IN  IF PaletteIndices \ used # {}
        THEN FirstAvailable(used)
        ELSE FallbackColor(c)

\* lines 39-55: the call up to the start of the greedy loop
AssignStart ==
    /\ pc = "assign_colors"
    /\ IF n = 0
       THEN /\ pc' = "colors_done"
            /\ polygon_colors' = << >>
            /\ UNCHANGED <<adjacency, colors_assigned, i>>
       ELSE /\ pc' = "color_loop"
            /\ adjacency' = BuildAdjacency(n)
            /\ colors_assigned' = << >>
            /\ i' = 0
            /\ UNCHANGED polygon_colors
    /\ UNCHANGED <<n, touching, overlapping, fetchVars, voronoiVars, raised>>
    /\ UNCHANGED <<repeatVars, apiVars>>

\* lines 57-72: one iteration of "for i in range(n)"
ColorCell ==
    /\ pc = "color_loop"
    /\ i < n
    /\ colors_assigned' =
          [ k \in 0 .. i |->
              IF k = i THEN ColorFor(i, adjacency, colors_assigned)
                       ELSE colors_assigned[k] ]
    /\ i' = i + 1
    /\ UNCHANGED <<pc, n, touching, overlapping, adjacency, polygon_colors,
                   fetchVars, voronoiVars, raised>>
    /\ UNCHANGED <<repeatVars, apiVars>>

\* line 74: the returned list
AssignReturn ==
    /\ pc = "color_loop"
    /\ i = n
    /\ polygon_colors' = [ k \in 1 .. n |-> ColorOf(colors_assigned[k - 1]) ]
    /\ pc' = "colors_done"
    /\ UNCHANGED <<n, touching, overlapping, adjacency, colors_assigned, i,
                   fetchVars, voronoiVars, raised>>
    /\ UNCHANGED <<repeatVars, apiVars>>

(***************************************************************************)
(* SpecColor: the colourer on every input of at most MaxAll cells (every   *)
(* pair of cells apart, touching or overlapping), and on every input of at *)
(* most MaxCells cells in which every two cells touch, except at most      *)
(* MaxOdd pairs, each of which is either apart or overlapping.             *)
(***************************************************************************)
\* the sets of pairs that do not simply touch
OddSets(m) ==
    IF m <= MaxAll THEN SUBSET PairsOf(m)
    ELSE SubsetsUpTo(PairsOf(m), MaxOdd)

InitColor ==
    /\ pc = "assign_colors"
    /\ \E m \in 0 .. MaxCells :
         \E odd \in OddSets(m) :
           \E ov \in SUBSET odd :
             /\ n = m
             /\ overlapping = ov
             /\ touching = PairsOf(m) \ odd
    /\ ColorIdle
    /\ FetchIdle
    /\ VoronoiIdle
    /\ raised = NoError
    /\ RepeatIdle
    /\ ApiIdle

NextColor == AssignStart \/ ColorCell \/ AssignReturn

SpecColor == InitColor /\ [][NextColor]_vars

(***************************************************************************)
(* SpecRepeat: the colourer called twice on the same cells in the same     *)
(* order.  The second call sees the same adjacency relation, either from   *)
(* the same geometries or from geometries in which the cells that touched  *)
(* overlap and the cells that overlapped touch.  The inputs are those of   *)
(* SpecColor, the unrestricted ones having at most MaxTwice cells.         *)
(***************************************************************************)
\* the second call: a new invocation, the locals of the first are gone
\* with its frame and only its returned list is kept
ColorAgain ==
    /\ pc = "colors_done"
    /\ call = 1
    /\ first_colors' = polygon_colors
    /\ call' = 2
    /\ \/ UNCHANGED <<touching, overlapping>>
       \/ /\ touching' = overlapping
          /\ overlapping' = touching
    /\ pc' = "assign_colors"
    /\ UNCHANGED <<n, adjacency, colors_assigned, i, polygon_colors>>
    /\ UNCHANGED <<fetchVars, voronoiVars, raised, apiVars>>

\* the sets of pairs that do not simply touch
TwiceOddSets(m) ==
    IF m <= MaxTwice THEN SUBSET PairsOf(m)
    ELSE SubsetsUpTo(PairsOf(m), MaxOdd)

InitRepeat ==
    /\ pc = "assign_colors"
    /\ \E m \in 0 .. MaxCells :
         \E odd \in TwiceOddSets(m) :
           \E ov \in SUBSET odd :
             /\ n = m
             /\ overlapping = ov
             /\ touching = PairsOf(m) \ odd
    /\ ColorIdle
    /\ FetchIdle
    /\ VoronoiIdle
    /\ raised = NoError
    /\ RepeatIdle
    /\ ApiIdle

NextRepeat == AssignStart \/ ColorCell \/ AssignReturn \/ ColorAgain

SpecRepeat == InitRepeat /\ [][NextRepeat]_vars

(***************************************************************************)
(* Properties of the colourer.                                             *)
(***************************************************************************)
\* the pairs of cells whose geometries touch or intersect
TouchOrIntersect == touching \cup overlapping

\* the palette indices used by the neighbours of c that precede it
UsedByEarlier(c) ==
    { colors_assigned[a] : a \in { x \in DOMAIN colors_assigned :
                                     x < c /\ <<x, c>> \in TouchOrIntersect } }

\* C1: for an input of at most PaletteSize cells, the returned colours of
\* every two cells that touch or intersect differ.
C1_ProperWithinPalette ==
    (pc = "colors_done" /\ n <= PaletteSize) =>
        \A p \in TouchOrIntersect :
            polygon_colors[p[1] + 1] # polygon_colors[p[2] + 1]

\* eight cells, every two of them adjacent, one pair by overlap: coloured
C1_Witness ==
    /\ pc = "colors_done"
    /\ n = PaletteSize
    /\ TouchOrIntersect = PairsOf(n)
    /\ overlapping # {}

\* C2: for any input, two adjacent cells share a colour only when the later
\* one found every palette index used by its earlier neighbours (it was
\* coloured by the fallback branch).
C2_CollisionOnlyByFallback ==
    pc = "colors_done" =>
        \A p \in TouchOrIntersect :
            polygon_colors[p[1] + 1] = polygon_colors[p[2] + 1]
                => UsedByEarlier(p[2]) = PaletteIndices

\* a finished colouring in which two adjacent cells share a colour
C2_Witness ==
    /\ pc = "colors_done"
    /\ \E p \in TouchOrIntersect :
          polygon_colors[p[1] + 1] = polygon_colors[p[2] + 1]

\* C3: cells are coloured in the order 0..n-1, and a cell whose earlier
\* neighbours leave a palette index free holds the smallest index they do
\* not use; later neighbours do not count.
C3_LowestFreeInOrder ==
    /\ pc = "color_loop" => DOMAIN colors_assigned = 0 .. (i - 1)
    /\ pc = "colors_done" /\ n > 0 => DOMAIN colors_assigned = 0 .. (n - 1)
    /\ pc \in {"color_loop", "colors_done"} =>
          \A c \in DOMAIN colors_assigned :
              LET free == PaletteIndices \ UsedByEarlier(c)
              IN  free # {} =>
                    /\ colors_assigned[c] \in free
                    /\ \A f \in free : colors_assigned[c] <= f

\* a coloured cell that reuses a low index although a later neighbour of it,
\* coloured since, holds a still lower one
C3_Witness ==
    /\ pc = "colors_done"
    /\ \E c \in DOMAIN colors_assigned :
          /\ colors_assigned[c] < c
          /\ colors_assigned[c] > 0
          /\ \E d \in DOMAIN colors_assigned :
                /\ d > c
                /\ <<c, d>> \in TouchOrIntersect

\* C4: the colourer always completes and returns one palette colour per
\* cell; a cell whose earlier neighbours use every palette index receives
\* cellIndex mod paletteSize.
C4_AlwaysCompletes ==
    /\ pc # "colors_done" => ENABLED NextColor
    /\ pc = "colors_done" =>
          /\ Len(polygon_colors) = n
          /\ \A k \in 1 .. n :
                /\ colors_assigned[k - 1] \in PaletteIndices
                /\ polygon_colors[k] = VORONOI_COLORS[colors_assigned[k - 1] + 1]
    /\ pc \in {"color_loop", "colors_done"} =>
          \A c \in DOMAIN colors_assigned :
              UsedByEarlier(c) = PaletteIndices
                  => colors_assigned[c] = c % PaletteSize

\* more mutually adjacent cells than colours: the call has returned and a
\* cell past the palette was coloured by the fallback
C4_Witness ==
    /\ pc = "colors_done"
    /\ n > PaletteSize
    /\ \E c \in DOMAIN colors_assigned :
          /\ c > PaletteSize
          /\ UsedByEarlier(c) = PaletteIndices

\* C13: the colourer is deterministic: a second call on the same cells in
\* the same order with the same adjacency relation returns the list the
\* first call returned.
C13_SameColorsAgain ==
    (call = 2 /\ pc = "colors_done") => polygon_colors = first_colors

\* the second call has returned for more cells than the palette has colours
\* (some cell took the fallback), on geometries other than those of the
\* first call
C13_Witness ==
    /\ call = 2
    /\ pc = "colors_done"
    /\ n > PaletteSize
    /\ Cardinality(overlapping) > MaxOdd
    /\ \E c \in 0 .. (n - 1) :
          /\ neighbor_colors(c, adjacency, colors_assigned) = PaletteIndices
          /\ polygon_colors[c + 1] = ColorOf(FallbackColor(c))

(***************************************************************************)
(* Properties of the station merge.                                        *)
(***************************************************************************)
\* the features the filter of lines 101-102 keeps: named Points
RawRecords ==
    { k \in 1 .. Len(features) :
        features[k].geometry.type = "Point" /\ features[k].name # NoName }

\* the raw records that carry exactly the name nm
RecordsNamed(nm) == { k \in RawRecords : features[k].name = nm }

\* the location of raw record k
RawPoint(k) == CHOOSE xy \in features[k].geometry.pts : TRUE

RECURSIVE SumOverRecords(_, _)
SumOverRecords(recs, axis) ==
    IF recs = {} THEN 0
    ELSE LET r == CHOOSE q \in recs : TRUE
         IN  RawPoint(r)[axis] + SumOverRecords(recs \ {r}, axis)

\* C5: after the merge no two stations share a name, and the names are
\* exactly the distinct names of the raw records, compared case-sensitively.
C5_UniqueNamesPreserved ==
    pc \in {"fetched", "merged_again"} =>
        /\ \A a, b \in 1 .. Len(stations) :
              stations[a].name = stations[b].name => a = b
        /\ { stations[k].name : k \in 1 .. Len(stations) }
              = { features[k].name : k \in RawRecords }

\* a merged frame of a query result that held a name twice and the same
\* name in the other case
C5_Witness ==
    /\ pc = "fetched"
    /\ Cardinality(RecordsNamed("A")) >= 2
    /\ RecordsNamed("a") # {}
    /\ Len(stations) = 2

\* C6, as stated: a station lies at the mean of all raw records of its name,
\* a location counted once for every record at it.
C6_MeanOfAllRecords ==
    pc = "fetched" =>
        \A k \in 1 .. Len(stations) :
            LET recs == RecordsNamed(stations[k].name)
                loc  == Location(stations[k].geometry)
            IN  /\ stations[k].geometry.type = "Point"
                /\ Cardinality(recs) * loc[1] = SumOverRecords(recs, 1)
                /\ Cardinality(recs) * loc[2] = SumOverRecords(recs, 2)

\* C6, amended: a station lies at the mean of the distinct locations of the
\* raw records of its name (records at the same location count once); raw
\* points A(0,0), A(2,0), B(5,5) give A(1,0), B(5,5).
C6_MeanOfDistinctPoints ==
    pc = "fetched" =>
        /\ \A k \in 1 .. Len(stations) :
              LET pts == { RawPoint(r) : r \in RecordsNamed(stations[k].name) }
                  loc == Location(stations[k].geometry)
              IN  /\ stations[k].geometry.type = "Point"
                  /\ Cardinality(stations[k].geometry.pts) = 1
                  /\ Cardinality(pts) * loc[1] = SumX(pts)
                  /\ Cardinality(pts) * loc[2] = SumY(pts)
        /\ features = << [ name |-> "A", geometry |-> Point(Pt(0, 0)) ],
                         [ name |-> "A", geometry |-> Point(Pt(2, 0)) ],
                         [ name |-> "B", geometry |-> Point(Pt(5, 5)) ] >>
              => /\ Len(stations) = 2
                 /\ stations[1].name = "A"
                 /\ stations[1].geometry = Point(Pt(1, 0))
                 /\ stations[2].name = "B"
                 /\ stations[2].geometry = Point(Pt(5, 5))

\* a merged group of three records, two of them at the same location
C6_Witness ==
    /\ pc = "fetched"
    /\ \E k \in 1 .. Len(stations) :
          LET recs == RecordsNamed(stations[k].name)
          IN  /\ Cardinality(recs) = 3
              /\ Cardinality({ RawPoint(r) : r \in recs }) = 2

\* C7: the merge applied to an already merged frame returns it unchanged,
\* and a name carried by one raw record keeps that record's point.
C7_MergeIdempotent ==
    /\ pc = "merged_again" => merged_again = stations
    /\ pc \in {"fetched", "merged_again"} =>
          \A k \in 1 .. Len(stations) :
              LET recs == RecordsNamed(stations[k].name)
              IN  Cardinality(recs) = 1 =>
                    \A r \in recs : stations[k].geometry = features[r].geometry

\* the second merge has run on a frame with a merged station and a station
\* of a single record off the diagonal
C7_Witness ==
    /\ pc = "merged_again"
    /\ \E a, b \in 1 .. Len(stations) :
          /\ Cardinality({ RawPoint(r) : r \in RecordsNamed(stations[a].name) }) = 2
          /\ Cardinality(RecordsNamed(stations[b].name)) = 1
          /\ stations[b].geometry = Point(Pt(2, 0))

(***************************************************************************)
(* Plane geometry of _create_voronoi.  The inputs of the model are the     *)
(* cities in which the stations lie on one east-west line and the city is  *)
(* a band along it; every geometry is then a band over a closed subset of  *)
(* the line, written as a set of disjoint closed intervals <<lo, hi>> of   *)
(* the x axis (lo = hi: a cross-section of no area), and intersection,     *)
(* emptiness, centroid, distance and touching are exact.                   *)
(***************************************************************************)
Max2(a, b) == IF a >= b THEN a ELSE b

Min2(a, b) == IF a <= b THEN a ELSE b

Abs(a) == IF a >= 0 THEN a ELSE 0 - a

\* the elements of a set of integers in ascending order
RECURSIVE SortSet(_)
SortSet(S) == IF S = {} THEN << >> ELSE << Min(S) >> \o SortSet(S \ {Min(S)})

\* to_crs between EPSG:4326 and the UTM zone: the planar frame has its
\* origin displaced (the false easting of the zone)
FalseEasting == 4 * Scale

to_crs_utm_point(geom) ==
    [ type |-> geom.type,
      pts  |-> { << xy[1] + FalseEasting, xy[2] >> : xy \in geom.pts } ]

to_crs_utm(region) ==
    { << iv[1] + FalseEasting, iv[2] + FalseEasting >> : iv \in region }

to_crs_4326(region) ==
    { << iv[1] - FalseEasting, iv[2] - FalseEasting >> : iv \in region }

\* shapely's voronoi_diagram of a Point or MultiPoint: no cell for a single
\* site; for sites s1 < ... < sm on a horizontal line the cell of sj reaches
\* from the bisector with its left neighbour to the bisector with its right
\* neighbour, the diagram being clipped to the envelope of the sites grown
\* by its larger side, sm - s1
voronoi_diagram(points) ==
    LET xs == SortSet({ xy[1] : xy \in points.pts })
        m  == Len(xs)
    IN  IF m <= 1 THEN << >>
        ELSE LET w == xs[m] - xs[1]
             IN  [ j \in 1 .. m |->
                     { << IF j = 1 THEN xs[1] - w ELSE (xs[j - 1] + xs[j]) \div 2,
                          IF j = m THEN xs[m] + w ELSE (xs[j] + xs[j + 1]) \div 2 >> } ]

\* shapely's is_empty
is_empty(region) == region = {}

\* shapely's a.intersection(b)
intersection(a, b) ==
    { << Max2(pr[1][1], pr[2][1]), Min2(pr[1][2], pr[2][2]) >> :
        pr \in { q \in a \X b : Max2(q[1][1], q[2][1]) <= Min2(q[1][2], q[2][2]) } }

\* the sums over the intervals of a region of hi^2 - lo^2, hi - lo and lo
RECURSIVE Moments(_)
Moments(region) ==
    IF region = {} THEN << 0, 0, 0 >>
    ELSE LET iv   == CHOOSE q \in region : TRUE
             rest == Moments(region \ {iv})
         IN  << rest[1] + (iv[2] * iv[2] - iv[1] * iv[1]),
                rest[2] + (iv[2] - iv[1]),
                rest[3] + iv[1] >>

\* shapely's centroid, as the fraction <<numerator, denominator>> of its x:
\* the centre of area of the parts that have area, else the mean of the
\* cross-sections; the centroid of the empty geometry is the empty point,
\* written <<0, 0>>
centroid(region) ==
    LET solid == { iv \in region : iv[2] > iv[1] }
    IN  IF solid # {}
        THEN << Moments(solid)[1], 2 * Moments(solid)[2] >>
        ELSE << Moments(region)[3], Cardinality(region) >>

\* whether a centroid is the empty point
point_is_empty(c) == c[2] = 0

\* a faulty variant: the difference is taken without its absolute value
DistanceSigned(c, x) == c[1] - c[2] * x

\* the planar distance of the point c (a fraction) and the station at x,
\* times the denominator of c
Distance(c, x) == Abs(c[1] - c[2] * x)

\* STRtree.nearest: the index of a tree geometry nearest the query point;
\* which one of several at the same distance is not specified
nearest(geoms, c) ==
    { idx \in 1 .. Len(geoms) :
        \A t \in 1 .. Len(geoms) :
            Distance(c, Location(geoms[idx])[1]) <= Distance(c, Location(geoms[t])[1]) }

(***************************************************************************)
(* _create_voronoi (src/voronoi_generator.py:177-219).                     *)
(***************************************************************************)
\* line 198: the filter of the comprehension
KeepCell(poly, city_geom) == ~ is_empty(poly)

\* lines 195-199: the cells of the diagram, clipped by the city boundary
ClipCells(cells, city_geom) ==
    LET Kept(poly) == KeepCell(poly, city_geom)
        kept == SelectSeq(cells, Kept)
    IN  [ k \in 1 .. Len(kept) |-> intersection(kept[k], city_geom) ]

\* lines 183-199, called with the frame _fetch_stations returned (line 492):
\* reprojection, diagram, city boundary, clipping
VoronoiClip ==
    /\ pc = "fetched"
    /\ LET utm == [ k \in 1 .. Len(stations) |->
                      [ name     |-> stations[k].name,
                        geometry |-> to_crs_utm_point(stations[k].geometry),
                        linha    |-> stations[k].linha ] ]
           points == UnionAll({ utm[k].geometry : k \in 1 .. Len(utm) })
           cells  == voronoi_diagram(points)
           city_geom == to_crs_utm(city_boundary)
       IN  /\ stations_utm' = utm
           /\ vor' = cells
           /\ city_gdf' = city_geom
           /\ vor_polys' = ClipCells(cells, city_geom)
    /\ pc' = "resolve_owners"
    /\ UNCHANGED <<city_boundary, voronoi_gdf, colorVars, fetchVars, raised>>
    /\ UNCHANGED <<repeatVars, apiVars>>

\* lines 201-219: every clipped cell gets the station nearest its centroid.
\* STRtree.nearest raises ValueError for an empty query geometry, and
\* GeoDataFrame(records, crs=...) raises ValueError when there are no
\* records, hence no geometry column.
VoronoiResolve ==
    /\ pc = "resolve_owners"
    /\ LET geoms == [ k \in 1 .. Len(stations_utm) |-> stations_utm[k].geometry ]
       IN  IF \/ \E k \in 1 .. Len(vor_polys) : point_is_empty(centroid(vor_polys[k]))
              \/ Len(vor_polys) = 0
           THEN /\ raised' = "ValueError"
                /\ pc' = "failed"
                /\ UNCHANGED voronoi_gdf
           ELSE /\ \E idx \in [ 1 .. Len(vor_polys) -> 1 .. Len(geoms) ] :
                     /\ \A k \in 1 .. Len(vor_polys) :
                           idx[k] \in nearest(geoms, centroid(vor_polys[k]))
                     /\ voronoi_gdf' =
                           [ k \in 1 .. Len(vor_polys) |->
                               [ name     |-> stations_utm[idx[k]].name,
                                 linha    |-> stations_utm[idx[k]].linha,
                                 geometry |-> to_crs_4326(vor_polys[k]) ] ]
                /\ pc' = "create_map"
                /\ UNCHANGED raised
    /\ UNCHANGED <<city_boundary, stations_utm, vor, city_gdf, vor_polys,
                   colorVars, fetchVars>>
    /\ UNCHANGED <<repeatVars, apiVars>>

\* whether two geometries share a point
Meet(a, b) == intersection(a, b) # {}

\* whether two geometries share area
Overlap(a, b) == \E iv \in intersection(a, b) : iv[2] > iv[1]

\* _create_map, line 238: the colourer is called on the returned frame
MapColors ==
    /\ pc = "create_map"
    /\ n' = Len(voronoi_gdf)
    /\ touching' = { p \in PairsOf(Len(voronoi_gdf)) :
                       /\ Meet(voronoi_gdf[p[1] + 1].geometry, voronoi_gdf[p[2] + 1].geometry)
                       /\ ~ Overlap(voronoi_gdf[p[1] + 1].geometry, voronoi_gdf[p[2] + 1].geometry) }
    /\ overlapping' = { p \in PairsOf(Len(voronoi_gdf)) :
                          Overlap(voronoi_gdf[p[1] + 1].geometry, voronoi_gdf[p[2] + 1].geometry) }
    /\ pc' = "assign_colors"
    /\ UNCHANGED <<adjacency, colors_assigned, i, polygon_colors,
                   fetchVars, voronoiVars, raised>>
    /\ UNCHANGED <<repeatVars, apiVars>>

(***************************************************************************)
(* SpecVoronoi: _fetch_stations, _create_voronoi and the colourer, one     *)
(* after the other as in generate_map, for every city that is the band     *)
(* over [0, MaxExtent] or over it less one open gap, and every query       *)
(* result of at most MaxRaw named Points at whole map units inside it.     *)
(***************************************************************************)
\* the city over [0, g1] and [g2, MaxExtent]
CityBand(g1, g2) ==
    IF g1 = g2 THEN { << 0, MaxExtent * Scale >> }
    ELSE { iv \in { << 0, g1 * Scale >>, << g2 * Scale, MaxExtent * Scale >> } :
             iv[2] > iv[1] }

Cities ==
    { CityBand(g[1], g[2]) :
        g \in { q \in (0 .. MaxExtent) \X (0 .. MaxExtent) : q[1] <= q[2] } } \ { {} }

\* the named Points at whole map units inside the city
FeaturesIn(city) ==
    { [ name |-> nm, geometry |-> Point(Pt(x, 0)) ] :
        nm \in Names,
        x \in { u \in 0 .. MaxExtent :
                  \E iv \in city : iv[1] <= u * Scale /\ u * Scale <= iv[2] } }

\* the rank of a feature in the order of the query result
FeatureRank(f) ==
    (CHOOSE k \in 1 .. Len(NameOrder) : NameOrder[k] = f.name) * (MaxExtent + 1) * Scale
        + Location(f.geometry)[1]

RECURSIVE FeatureSeq(_)
FeatureSeq(fs) ==
    IF fs = {} THEN << >>
    ELSE LET f == CHOOSE g \in fs : \A h \in fs : FeatureRank(g) <= FeatureRank(h)
         IN  << f >> \o FeatureSeq(fs \ {f})

InitVoronoi ==
    /\ pc = "fetch_stations"
    /\ city_boundary \in Cities
    /\ \E fs \in SubsetsUpTo(FeaturesIn(city_boundary), MaxRaw) :
          features = FeatureSeq(fs)
    /\ stations = << >>
    /\ merged_again = << >>
    /\ stations_utm = << >>
    /\ vor = << >>
    /\ city_gdf = {}
    /\ vor_polys = << >>
    /\ voronoi_gdf = << >>
    /\ raised = NoError
    /\ n = 0
    /\ touching = {}
    /\ overlapping = {}
    /\ ColorIdle
    /\ RepeatIdle
    /\ ApiIdle

NextVoronoi ==
    \/ FetchFilter
    \/ FetchMerge
    \/ VoronoiClip
    \/ VoronoiResolve
    \/ MapColors
    \/ AssignStart
    \/ ColorCell
    \/ AssignReturn

SpecVoronoi == InitVoronoi /\ [][NextVoronoi]_vars

(***************************************************************************)
(* Properties of _create_voronoi.                                          *)
(***************************************************************************)
\* _create_voronoi has returned its frame
VoronoiReturned == pc \in {"create_map", "assign_colors", "color_loop", "colors_done"}

\* C8: every cell the partition builder keeps has non-empty geometry: a
\* diagram cell whose intersection with the city boundary is empty reaches
\* neither owner resolution nor the returned frame.
C8_EmptyCellsDiscarded ==
    /\ pc = "resolve_owners" =>
          \A k \in 1 .. Len(vor_polys) : vor_polys[k] # {}
    /\ \A k \in 1 .. Len(voronoi_gdf) : voronoi_gdf[k].geometry # {}

\* C9: the owner of every returned cell is a station of the merged frame
\* that no other station beats in planar distance to the centroid of the
\* clipped cell.
C9_OwnerIsNearest ==
    VoronoiReturned =>
        /\ Len(voronoi_gdf) = Len(vor_polys)
        /\ \A k \in 1 .. Len(voronoi_gdf) :
              LET c == centroid(vor_polys[k])
                  Far(x) == IF c[1] >= c[2] * x THEN c[1] - c[2] * x
                                                ELSE c[2] * x - c[1]
              IN  /\ c[2] > 0
                  /\ \E s \in 1 .. Len(stations_utm) :
                        /\ stations_utm[s].name = voronoi_gdf[k].name
                        /\ stations[s].name = voronoi_gdf[k].name
                        /\ \A t \in 1 .. Len(stations_utm) :
                              Far(Location(stations_utm[s].geometry)[1])
                                  <= Far(Location(stations_utm[t].geometry)[1])

\* three cells are returned, one of them cut by the city boundary and owned
\* by a station that does not stand at the cell's place in the frame
C9_Witness ==
    /\ pc = "colors_done"
    /\ Len(voronoi_gdf) = 3
    /\ \E k \in 1 .. 3 :
          /\ vor_polys[k] # vor[k]
          /\ voronoi_gdf[k].name # stations_utm[k].name

\* C10: with exactly one station in the merged frame the pipeline ends with
\* exactly one cell, the whole city boundary, owned by that station.
C10_SingleStationOneCell ==
    (Len(stations) = 1 /\ pc \in {"failed", "colors_done"}) =>
        /\ pc = "colors_done"
        /\ Len(voronoi_gdf) = 1
        /\ voronoi_gdf[1].geometry = city_boundary
        /\ voronoi_gdf[1].name = stations[1].name


\* whether the point at p lies in a region
PointIn(region, p) == \E iv \in region : iv[1] <= p /\ p <= iv[2]

\* whether the stretch from p to p + 1 lies in a region
StretchIn(region, p) == \E iv \in region : iv[1] <= p /\ p + 1 <= iv[2]

\* whether every point of the region a is a point of the region b
Within(a, b) ==
    \A iv \in a :
        /\ \A p \in iv[1] .. iv[2] : PointIn(b, p)
        /\ \A p \in iv[1] .. (iv[2] - 1) : StretchIn(b, p)

\* the points of all the cells of the returned frame
CellsUnion == UNION { voronoi_gdf[k].geometry : k \in 1 .. Len(voronoi_gdf) }

\* C11: when the partition is returned, the union of its cells is the city
\* boundary: every point of the boundary lies in some cell, and no cell has
\* a point outside the boundary.
C11_CellsCoverBoundary ==
    VoronoiReturned =>
        /\ Within(city_boundary, CellsUnion)
        /\ Within(CellsUnion, city_boundary)

\* the half of C11 that holds: no cell has a point outside the boundary
NoCellOutsideBoundary ==
    VoronoiReturned => Within(CellsUnion, city_boundary)


(***************************************************************************)
(* Strings.  A city name is a sequence of characters, so that lower,       *)
(* replace and strip act on it character by character; slugs, file names   *)
(* and messages are the strings these sequences join to.                   *)
(***************************************************************************)
UpperLetters ==
    << "A", "B", "C", "D", "E", "F", "G", "H", "I", "J", "K", "L", "M",
       "N", "O", "P", "Q", "R", "S", "T", "U", "V", "W", "X", "Y", "Z" >>

LowerLetters ==
    << "a", "b", "c", "d", "e", "f", "g", "h", "i", "j", "k", "l", "m",
       "n", "o", "p", "q", "r", "s", "t", "u", "v", "w", "x", "y", "z" >>

\* str.lower
str_lower(s) ==
    [ k \in 1 .. Len(s) |->
        IF \E u \in 1 .. Len(UpperLetters) : UpperLetters[u] = s[k]
        THEN LowerLetters[CHOOSE u \in 1 .. Len(UpperLetters) : UpperLetters[u] = s[k]]
        ELSE s[k] ]

\* str.replace of the character old by the characters new
RECURSIVE str_replace(_, _, _)
str_replace(s, old, new) ==
    IF s = << >> THEN << >>
    ELSE (IF s[1] = old THEN new ELSE << s[1] >>) \o str_replace(Tail(s), old, new)

\* str.strip
RECURSIVE str_strip(_)
str_strip(s) ==
    IF s = << >> THEN s
    ELSE IF s[1] = " " THEN str_strip(Tail(s))
    ELSE IF s[Len(s)] = " " THEN str_strip(SubSeq(s, 1, Len(s) - 1))
    ELSE s

\* the string of a sequence of characters
RECURSIVE Join(_)
Join(s) == IF s = << >> THEN "" ELSE s[1] \o Join(Tail(s))

\* src/voronoi_generator.py:13
MAP_VERSION == "v2"

\* src/app.py:28-37
POPULAR_CITIES ==
    <<
       \* São Paulo, Brazil
       << "S", "ã", "o", " ", "P", "a", "u", "l", "o", ",", " ", "B", "r",
          "a", "z", "i", "l" >>,
       \* Rio de Janeiro, Brazil
       << "R", "i", "o", " ", "d", "e", " ", "J", "a", "n", "e", "i", "r",
          "o", ",", " ", "B", "r", "a", "z", "i", "l" >>,
       \* Tokyo, Japan
       << "T", "o", "k", "y", "o", ",", " ", "J", "a", "p", "a", "n" >>,
       \* London, United Kingdom
       << "L", "o", "n", "d", "o", "n", ",", " ", "U", "n", "i", "t", "e",
          "d", " ", "K", "i", "n", "g", "d", "o", "m" >>,
       \* New York City, USA
       << "N", "e", "w", " ", "Y", "o", "r", "k", " ", "C", "i", "t", "y",
          ",", " ", "U", "S", "A" >>,
       \* Paris, France
       << "P", "a", "r", "i", "s", ",", " ", "F", "r", "a", "n", "c", "e" >>,
       \* Mexico City, Mexico
       << "M", "e", "x", "i", "c", "o", " ", "C", "i", "t", "y", ",", " ",
          "M", "e", "x", "i", "c", "o" >>,
       \* Seoul, South Korea
       << "S", "e", "o", "u", "l", ",", " ", "S", "o", "u", "t", "h", " ",
          "K", "o", "r", "e", "a" >>
    >>

\* src/main.py:11
CITY == POPULAR_CITIES[3]

(***************************************************************************)
(* The generator as the web application uses it                            *)
(* (src/voronoi_generator.py:86-88, 454-515).                              *)
(***************************************************************************)
\* most cities of POPULAR_CITIES the model serves, from the first on
MaxPopular == 3

\* the cities of the model
PopularCities == SubSeq(POPULAR_CITIES, 1, MaxPopular)

ServedCities == { PopularCities[k] : k \in 1 .. Len(PopularCities) } \cup {CITY}

\* _get_city_slug (lines 86-88)
get_city_slug(city_name) ==
    Join(str_replace(str_replace(str_lower(city_name), ",", << >>), " ", << "_" >>))

\* the slugs and the names of the cities of the model as strings, computed
\* once
CitySlug == [ c \in ServedCities |-> get_city_slug(c) ]

CityName == [ c \in ServedCities |-> Join(c) ]

\* lines 466 and 511: the name of the map file in maps_dir
output_file(city) ==
    CitySlug[city] \o "_voronoi_" \o MAP_VERSION \o ".html"

\* get_cached_map (lines 508-515): the file, or None
None == "<None>"

get_cached_map(city) ==
    IF output_file(city) \in maps_dir THEN output_file(city) ELSE None

\* what the data source may hold for a city: it cannot be reached, or it
\* answers the station query with these features
OsmData ==
    { [ available |-> FALSE, features |-> << >> ],
      [ available |-> TRUE,
        features  |-> << [ name |-> NoName, geometry |-> Point(Pt(0, 0)) ] >> ],
      [ available |-> TRUE,
        features  |-> << [ name |-> "A", geometry |-> Point(Pt(0, 0)) ] >> ],
      [ available |-> TRUE,
        features  |-> << [ name |-> "A", geometry |-> Point(Pt(0, 0)) ],
                         [ name |-> "B", geometry |-> Point(Pt(2, 0)) ] >> ] }

\* no step of the pipeline failed
NoFailure == [ type |-> NoError, message |-> "" ]

\* the text of an exception of a library, which the model does not spell out
LibraryMessage == "<library message>"

\* the first failure of the steps of lines 475-500 for a city the data
\* source holds data for: the source does not answer (line 98), no named
\* Point is left (lines 107-108), or the diagram has no cell to build the
\* frame from (lines 188, 216)
FirstFailure(city, data) ==
    IF ~ data.available
    THEN [ type |-> "ConnectionError", message |-> LibraryMessage ]
    ELSE IF Len(NamedPoints(data.features)) = 0
    THEN [ type    |-> "ValueError",
           message |-> "No metro stations found for " \o CityName[city] ]
    ELSE LET merged == MergeDuplicates(NamedPoints(data.features))
             points == UnionAll({ to_crs_utm_point(merged[k].geometry) :
                                    k \in 1 .. Len(merged) })
         IN  IF Len(voronoi_diagram(points)) = 0
             THEN [ type |-> "ValueError", message |-> LibraryMessage ]
             ELSE NoFailure

\* FirstFailure for every city and data, computed once
FailureTable == [ c \in ServedCities, d \in OsmData |-> FirstFailure(c, d) ]

\* the first failure of the pipeline for a city
PipelineFailure(city) == FailureTable[city, osm[city]]

\* generate_map (lines 454-506): what it raises, the files of maps_dir
\* after it, and the slug it returns
generate_map(city, force_regenerate) ==
    IF output_file(city) \in maps_dir /\ ~ force_regenerate
    THEN [ raised |-> NoError, message |-> "", files |-> maps_dir,
           city_slug |-> CitySlug[city] ]
    ELSE IF PipelineFailure(city) = NoFailure
    THEN [ raised |-> NoError, message |-> "",
           files |-> maps_dir \cup { output_file(city) },
           city_slug |-> CitySlug[city] ]
    ELSE [ raised    |-> "Exception",
           message   |-> "Error generating map for " \o CityName[city] \o ": "
                            \o PipelineFailure(city).message,
           files     |-> maps_dir,
           city_slug |-> None ]

(***************************************************************************)
(* The web application (src/app.py) and the script src/main.py.            *)
(***************************************************************************)
\* d[key] = value of a Python dict
Put(d, key, value) ==
    [ k \in DOMAIN d \cup {key} |-> IF k = key THEN value ELSE d[k] ]

\* the "city" values of the request bodies: the cities of the model, no
\* city, and blanks
RequestCities == ServedCities \cup { << >>, << " ", " " >> }

\* data.get("city", "").strip() for the request bodies, computed once
Stripped == [ c \in RequestCities |-> str_strip(c) ]

\* app.py:130: the file get_map looks for
map_file(slug) == slug \o "_voronoi.html"

\* the slugs in the paths of GET /api/map/{city_slug}
RequestSlugs == { CitySlug[c] : c \in ServedCities }

\* main.py:145-146
main_output_file ==
    Join(str_replace(str_replace(str_lower(CITY), ",", << >>), " ", << "_" >>))
        \o "_voronoi.html"

\* POST /api/generate-map (app.py:81-124)
PostGenerateMap ==
    /\ pc = "serving"
    /\ \E data_city \in RequestCities, force_regenerate \in BOOLEAN :
         LET city   == Stripped[data_city]
             slug   == CitySlug[city]
             result == generate_map(city, force_regenerate)
         IN  IF city = << >>
             THEN /\ response' = [ handler |-> "generate_map", code |-> 400,
                                   detail |-> "City name cannot be empty" ]
                  /\ UNCHANGED <<maps_dir, status_file, map_urls>>
             ELSE IF get_cached_map(city) # None /\ ~ force_regenerate
             THEN /\ response' = [ handler |-> "generate_map", code |-> 200,
                                   city |-> CityName[city],
                                   map_url |-> "/api/map/" \o slug,
                                   cached |-> TRUE ]
                  /\ map_urls' = map_urls \cup { "/api/map/" \o slug }
                  /\ UNCHANGED <<maps_dir, status_file>>
             ELSE IF result.raised = NoError
             THEN /\ maps_dir' = result.files
                  /\ status_file' = Put(status_file, result.city_slug,
                                        [ ready |-> TRUE, city |-> CityName[city] ])
                  /\ response' = [ handler |-> "generate_map", code |-> 200,
                                   city |-> CityName[city],
                                   map_url |-> "/api/map/" \o result.city_slug,
                                   cached |-> FALSE ]
                  /\ map_urls' = map_urls \cup { "/api/map/" \o result.city_slug }
             ELSE IF result.raised = "ValueError"
             THEN /\ response' = [ handler |-> "generate_map", code |-> 404,
                                   city |-> CityName[city],
                                   detail |-> result.message ]
                  /\ UNCHANGED <<maps_dir, status_file, map_urls>>
             ELSE /\ response' = [ handler |-> "generate_map", code |-> 500,
                                   city |-> CityName[city],
                                   detail |-> "Error generating map: "
                                                 \o result.message ]
                  /\ UNCHANGED <<maps_dir, status_file, map_urls>>
    /\ UNCHANGED <<pc, osm, pr_pc, status, city_k, city_slug, raised>>
    /\ UNCHANGED <<colorVars, fetchVars, voronoiVars, repeatVars>>

\* GET /api/map/{city_slug} (app.py:127-135)
GetMap ==
    /\ pc = "serving"
    /\ \E slug \in RequestSlugs :
         response' =
            IF map_file(slug) \in maps_dir
            THEN [ handler |-> "get_map", code |-> 200, city_slug |-> slug,
                   file |-> map_file(slug) ]
            ELSE [ handler |-> "get_map", code |-> 404, city_slug |-> slug,
                   detail |-> "Map not found" ]
    /\ UNCHANGED <<pc, osm, maps_dir, status_file, map_urls, pr_pc, status,
                   city_k, city_slug, raised>>
    /\ UNCHANGED <<colorVars, fetchVars, voronoiVars, repeatVars>>

\* POST /api/prerender-popular (app.py:138-158): the task is handed to the
\* background tasks and the handler answers
PostPrerender ==
    /\ pc = "serving"
    /\ pr_pc \in {"idle", "done", "crashed"}
    /\ pr_pc' = "scheduled"
    /\ response' = [ handler |-> "prerender", code |-> 200,
                     message |-> "Pre-rendering started in background" ]
    /\ UNCHANGED <<pc, osm, maps_dir, status_file, map_urls, status, city_k,
                   city_slug, raised>>
    /\ UNCHANGED <<colorVars, fetchVars, voronoiVars, repeatVars>>

\* prerender, app.py:143-144: the task starts with status = load_status()
PrerenderStart ==
    /\ pr_pc = "scheduled"
    /\ status' = status_file
    /\ city_k' = 1
    /\ city_slug' = Unbound
    /\ pr_pc' = "loop"
    /\ UNCHANGED <<pc, osm, maps_dir, status_file, response, map_urls, raised>>
    /\ UNCHANGED <<colorVars, fetchVars, voronoiVars, repeatVars>>

\* prerender, app.py:145-154: one iteration of "for city in POPULAR_CITIES".
\* city_slug is bound by the tuple assignment of line 148 only; the except
\* branch reads it on line 153, and reading it while it is unbound raises
\* UnboundLocalError, which leaves the task.
PrerenderCity ==
    /\ pr_pc = "loop"
    /\ city_k <= Len(PopularCities)
    /\ LET city   == PopularCities[city_k]
           result == generate_map(city, FALSE)
       IN  IF result.raised = NoError
           THEN /\ maps_dir' = result.files
                /\ city_slug' = result.city_slug
                /\ status' = Put(status, result.city_slug,
                                 [ ready |-> TRUE, city |-> CityName[city] ])
                /\ status_file' = status'
                /\ city_k' = city_k + 1
                /\ UNCHANGED <<pr_pc, raised>>
           ELSE IF city_slug = Unbound
           THEN /\ pr_pc' = "crashed"
                /\ raised' = "UnboundLocalError"
                /\ UNCHANGED <<maps_dir, city_slug, status, status_file, city_k>>
           ELSE /\ status' = Put(status, city_slug,
                                 [ ready |-> FALSE, city |-> CityName[city],
                                   error |-> result.message ])
                /\ status_file' = status'
                /\ city_k' = city_k + 1
                /\ UNCHANGED <<maps_dir, city_slug, pr_pc, raised>>
    /\ UNCHANGED <<pc, osm, response, map_urls>>
    /\ UNCHANGED <<colorVars, fetchVars, voronoiVars, repeatVars>>

\* prerender: the loop is over and the task returns
PrerenderReturn ==
    /\ pr_pc = "loop"
    /\ city_k > Len(PopularCities)
    /\ pr_pc' = "done"
    /\ UNCHANGED <<pc, osm, maps_dir, status_file, response, map_urls, status,
                   city_k, city_slug, raised>>
    /\ UNCHANGED <<colorVars, fetchVars, voronoiVars, repeatVars>>

\* whether the steps of main.py before line 148 go through on the data
MainWrites ==
    [ d \in OsmData |->
        /\ d.available
        /\ LET named  == NamedPoints(d.features)
               points == UnionAll({ to_crs_utm_point(named[k].geometry) :
                                      k \in 1 .. Len(named) })
           IN  /\ Len(named) > 0
               /\ Len(voronoi_diagram(points)) > 0 ]

\* src/main.py run as a script: for CITY it writes the map without the
\* version in the file name (lines 145-148) when every step before went
\* through; it neither checks for stations nor merges them
MainScript ==
    /\ pc = "serving"
    /\ MainWrites[osm[CITY]]
    /\ maps_dir' = maps_dir \cup { main_output_file }
    /\ UNCHANGED <<pc, osm, status_file, response, map_urls, pr_pc, status,
                   city_k, city_slug, raised>>
    /\ UNCHANGED <<colorVars, fetchVars, voronoiVars, repeatVars>>

(***************************************************************************)
(* SpecApi: the web application serving requests for the first MaxPopular  *)
(* popular cities, the background task and the script, in any order, for   *)
(* every assignment of data to the cities.                                 *)
(***************************************************************************)
InitApi ==
    /\ pc = "serving"
    /\ osm \in [ ServedCities -> OsmData ]
    /\ maps_dir = {}
    /\ status_file = << >>
    /\ response = NoResponse
    /\ map_urls = {}
    /\ pr_pc = "idle"
    /\ status = << >>
    /\ city_k = 0
    /\ city_slug = Unbound
    /\ raised = NoError
    /\ n = 0
    /\ touching = {}
    /\ overlapping = {}
    /\ ColorIdle
    /\ FetchIdle
    /\ VoronoiIdle
    /\ RepeatIdle

NextApi ==
    \/ PostGenerateMap
    \/ GetMap
    \/ PostPrerender
    \/ PrerenderStart
    \/ PrerenderCity
    \/ PrerenderReturn
    \/ MainScript

SpecApi == InitApi /\ [][NextApi]_vars

(***************************************************************************)
(* Properties of the web application.                                      *)
(***************************************************************************)
\* the last request was POST /api/generate-map for the city c
AnsweredGenerateMap(c) ==
    /\ response.handler = "generate_map"
    /\ response.code # 400
    /\ response.city = CityName[c]

\* C12: the first failure of the pipeline reaches the handler with its own
\* type: when the station query of a city leaves no named Point, the answer
\* to POST /api/generate-map is 404 with the message of that ValueError,
\* not 500.
C12_NoStationsIsNotFound ==
    \A c \in ServedCities :
        ( /\ AnsweredGenerateMap(c)
          /\ osm[c].available
          /\ Len(NamedPoints(osm[c].features)) = 0 )
        => /\ response.code = 404
           /\ response.detail = "No metro stations found for " \o CityName[c]

\* C14: a map_url handed out by POST /api/generate-map leads to the saved
\* map: GET of that URL is answered with the file, never with "Map not
\* found".
C14_MapUrlFindsMap ==
    ( /\ response.handler = "get_map"
      /\ ("/api/map/" \o response.city_slug) \in map_urls )
    => response.code = 200

\* an iteration of the prerender loop in which generate_map raises
PrerenderFailure ==
    /\ PrerenderCity
    /\ generate_map(PopularCities[city_k], FALSE).raised # NoError

\* C15: when generate_map fails for a city in the prerender task, the
\* stored status gets {ready: false, error} under the slug of that city,
\* every other entry of it stays as it was, and the task goes on to the
\* next city.
C15_FailureTouchesOwnEntry ==
    [][ PrerenderFailure =>
          LET city == PopularCities[city_k]
              own  == CitySlug[city]
          IN  /\ pr_pc' = "loop"
              /\ city_k' = city_k + 1
              /\ DOMAIN status_file' = DOMAIN status_file \cup {own}
              /\ status_file'[own].ready = FALSE
              /\ status_file'[own].city = CityName[city]
              /\ \A s \in DOMAIN status_file \ {own} :
                    status_file'[s] = status_file[s] ]_vars

=============================================================================
